---- MODULE Spec2Model ----
(***************************************************************************)
(* Golf round store (src/app.py): the SQLite schema created by init_db,    *)
(* the write path save_round, the read paths load_rounds_summary and       *)
(* load_holes, and the aggregation done by the Statistics page.            *)
(*                                                                         *)
(* The database file is modelled by its committed contents: the set of     *)
(* existing tables, the rows of rounds and holes, and sqlite_sequence (the *)
(* AUTOINCREMENT counters).  A call of save_round works on the private     *)
(* view of its own connection; other connections see that view only once   *)
(* conn.commit() has run.                                                  *)
(*                                                                         *)
(* result is what the last operation handed to its caller; returned lists  *)
(* the ids save_round has returned so far, and rolled_back is the id that  *)
(* cur.lastrowid gave to the latest call that raised (0 when none did).    *)
(***************************************************************************)
EXTENDS Integers, Sequences, FiniteSets, TLC

VARIABLES tables, rounds, holes, sqlite_sequence, clock, result, returned, rolled_back

vars == <<tables, rounds, holes, sqlite_sequence, clock, result, returned, rolled_back>>

store == <<tables, rounds, holes, sqlite_sequence>>

(***************************************************************************)
(* Bounds of the exploration.                                              *)
(***************************************************************************)
MaxRounds == 2
MaxEntries == 3

(***************************************************************************)
(* Inputs.                                                                 *)
(***************************************************************************)
Tables == {"rounds", "holes"}

WeatherOptions == {"Dry", "Wet", "Windy", "Other"}

Courses == {"", "Pebble Creek"}

\* The values entered for one hole: the three holes of the scenario of
\* spec.md section 8, and one entry whose strokes, putts and weather are all
\* out of range.
HoleInput(strokes, fir, gir, putts, weather) ==
    [strokes |-> strokes, fir |-> fir, gir |-> gir, putts |-> putts, weather |-> weather]

Birdie == HoleInput(4, 1, 1, 2, "Dry")

Bogey == HoleInput(5, 0, 1, 1, "Wet")

Chip == HoleInput(3, 1, 0, 2, "Windy")

OutOfRange == HoleInput(0, 1, 0, -1, "Fog")

\* The element of hole_data for the i-th hole of the course.
HoleEntry(i, v) ==
    [hole |-> i, strokes |-> v.strokes, fir |-> v.fir, gir |-> v.gir,
     putts |-> v.putts, weather |-> v.weather]

Entries(vs) == [i \in DOMAIN vs |-> HoleEntry(i, vs[i])]

\* The hole lists a caller submits: none, two holes with the same values,
\* the three holes of the scenario, and one out-of-range hole.
HoleData ==
    { Entries(<<>>),
      Entries(<<Birdie, Birdie>>),
      Entries(<<Birdie, Bogey, Chip>>),
      Entries(<<OutOfRange>>) }

(***************************************************************************)
(* Arithmetic helpers.                                                     *)
(***************************************************************************)
Max(a, b) == IF a >= b THEN a ELSE b

Min(a, b) == IF a <= b THEN a ELSE b

Abs(a) == IF a < 0 THEN -a ELSE a

RECURSIVE GCD(_, _)
GCD(a, b) == IF b = 0 THEN a ELSE GCD(b, a % b)

\* An exact quotient n / d (d > 0) in lowest terms.
Ratio(n, d) ==
    LET g == GCD(Abs(n), d) IN [num |-> n \div g, den |-> d \div g]

\* float('nan'): what pandas returns for the mean of an empty column.
NaN == [num |-> 0, den |-> 0]

RECURSIVE SumSeq(_, _)
\* Python sum(d[col] for d in data).
SumSeq(data, col) ==
    IF data = <<>> THEN 0 ELSE data[1][col] + SumSeq(Tail(data), col)

RECURSIVE SumSet(_)
SumSet(S) ==
    IF S = {} THEN 0
    ELSE LET x == CHOOSE y \in S : TRUE IN x + SumSet(S \ {x})

\* Faulty variant: SUM(DISTINCT col).
SumRowsDistinct(rows, col) == SumSet({r[col] : r \in rows})

RECURSIVE SumRows(_, _)
\* SQL SUM(col) / pandas Series.sum() over a collection of rows.
SumRows(rows, col) ==
    IF rows = {} THEN 0
    ELSE LET r == CHOOSE x \in rows : TRUE
         IN r[col] + SumRows(rows \ {r}, col)

MaxId(rows) ==
    IF rows = {} THEN 0
    ELSE CHOOSE m \in {r.id : r \in rows} : \A r \in rows : r.id <= m

(***************************************************************************)
(* init_db: CREATE TABLE IF NOT EXISTS for both tables.                    *)
(***************************************************************************)
CreateTableIfNotExists(existing, t) == existing \cup {t}

\* Faulty variant: the table is dropped and created again.
RowsAfterCreateDropping(existing, t, rows) == {}

\* The rows of table t after CREATE TABLE IF NOT EXISTS t: an existing table
\* is left as it is, a new one is empty.
RowsAfterCreate(existing, t, rows) == IF t \in existing THEN rows ELSE {}

(***************************************************************************)
(* The statements of save_round, on the view of one connection             *)
(* c = [rounds, holes, seq].                                               *)
(***************************************************************************)
\* Faulty variant: the counter is not advanced.
NextRowidStuck(rows, seqv) == Max(seqv, MaxId(rows))

\* INTEGER PRIMARY KEY AUTOINCREMENT: one more than the largest rowid the
\* table has ever held.
NextRowid(rows, seqv) == Max(seqv, MaxId(rows)) + 1

\* INSERT INTO rounds(course) VALUES (?); played_at takes CURRENT_TIMESTAMP.
InsertRound(c, course, now) ==
    LET id == NextRowid(c.rounds, c.seq["rounds"])
    IN [c EXCEPT !.rounds = @ \cup {[id |-> id, course |-> course, played_at |-> now]},
                 !.seq = [@ EXCEPT !["rounds"] = id]]

\* Faulty variant: the id is read from the wrong counter.
lastrowidOfHoles(c) == c.seq["holes"]

\* cur.lastrowid right after the INSERT INTO rounds.
lastrowid(c) == c.seq["rounds"]

\* Faulty variant: every hole is attached to round 1.
InsertHoleFirstRound(c, round_id, h) ==
    LET id == NextRowid(c.holes, c.seq["holes"])
    IN [c EXCEPT !.holes = @ \cup {[id |-> id, round_id |-> 1, hole |-> h.hole,
                                    strokes |-> h.strokes, fir |-> h.fir, gir |-> h.gir,
                                    putts |-> h.putts, weather |-> h.weather]},
                 !.seq = [@ EXCEPT !["holes"] = id]]

\* INSERT INTO holes(round_id, hole, strokes, fir, gir, putts, weather).
InsertHole(c, round_id, h) ==
    LET id == NextRowid(c.holes, c.seq["holes"])
    IN [c EXCEPT !.holes = @ \cup {[id |-> id, round_id |-> round_id, hole |-> h.hole,
                                    strokes |-> h.strokes, fir |-> h.fir, gir |-> h.gir,
                                    putts |-> h.putts, weather |-> h.weather]},
                 !.seq = [@ EXCEPT !["holes"] = id]]

RECURSIVE InsertHoles(_, _, _, _)
\* The first k iterations of "for h in hole_data".
InsertHoles(c, round_id, hole_data, k) ==
    IF k = 0 THEN c
    ELSE InsertHole(InsertHoles(c, round_id, hole_data, k - 1), round_id, hole_data[k])

\* Faulty variant: the connection runs in autocommit mode, every statement is
\* written through at once.
CloseCommitting(committed, work) == work

\* An exception leaves save_round before conn.commit(): the connection is
\* dropped with its transaction open, and SQLite rolls the transaction back.
CloseWithoutCommit(committed, work) == committed

\* conn.commit(): the view of the connection becomes the database.
Commit(committed, work) == work

(***************************************************************************)
(* load_rounds_summary and load_holes.                                     *)
(***************************************************************************)
\* One output row of  rounds r JOIN holes h ON r.id = h.round_id GROUP BY r.id.
SummaryRow(r, hs) ==
    LET g == {h \in hs : h.round_id = r.id}
    IN [id |-> r.id, played_at |-> r.played_at, course |-> r.course,
        strokes |-> SumRows(g, "strokes"), fir |-> SumRows(g, "fir"),
        gir |-> SumRows(g, "gir"), putts |-> SumRows(g, "putts")]

\* The grouped rows; a round without holes has no row (inner join).
SummaryRows(rs, hs) ==
    {SummaryRow(r, hs) : r \in {x \in rs : \E h \in hs : h.round_id = x.id}}

\* Faulty variant: ORDER BY r.played_at ASC.
OrderedAsc(df) ==
    \A i, j \in DOMAIN df : i < j => df[i].played_at <= df[j].played_at

\* ORDER BY r.played_at DESC.
OrderedDesc(df) ==
    \A i, j \in DOMAIN df : i < j => df[i].played_at >= df[j].played_at

\* The data frames the query may return: SQL leaves the order of rows with
\* equal played_at open, so every arrangement of them is possible.
load_rounds_summary(rs, hs) ==
    LET rows == SummaryRows(rs, hs)
        n == Cardinality(rows)
    IN {df \in [1..n -> rows] : (\A i, j \in 1..n : i # j => df[i] # df[j]) /\ OrderedDesc(df)}

\* SELECT * FROM holes (no order is promised).
load_holes(hs) == hs

(***************************************************************************)
(* The Statistics page.                                                    *)
(***************************************************************************)
Column(df, col) == [i \in DOMAIN df |-> df[i][col]]

RECURSIVE SumColumn(_)
SumColumn(xs) == IF xs = <<>> THEN 0 ELSE xs[1] + SumColumn(Tail(xs))

\* pandas Series.mean().
Mean(xs) == IF Len(xs) = 0 THEN NaN ELSE Ratio(SumColumn(xs), Len(xs))

\* Faulty variant: the factor 100 is forgotten.
fir_fraction(holes_df) ==
    IF holes_df # {} THEN Ratio(SumRows(holes_df, "fir"), Cardinality(holes_df))
    ELSE Ratio(0, 1)

\* holes_df["fir"].sum() / len(holes_df) * 100 if not holes_df.empty else 0
fir_pct(holes_df) ==
    IF holes_df # {} THEN Ratio(SumRows(holes_df, "fir") * 100, Cardinality(holes_df))
    ELSE Ratio(0, 1)

\* holes_df["gir"].sum() / len(holes_df) * 100 if not holes_df.empty else 0
gir_pct(holes_df) ==
    IF holes_df # {} THEN Ratio(SumRows(holes_df, "gir") * 100, Cardinality(holes_df))
    ELSE Ratio(0, 1)

Metrics(summary_df, holes_df) ==
    [op |-> "Statistics", shown |-> "metrics",
     total_rounds |-> Len(summary_df),
     avg_score |-> Mean(Column(summary_df, "strokes")),
     avg_putts |-> Mean(Column(summary_df, "putts")),
     fir_pct |-> fir_pct(holes_df),
     gir_pct |-> gir_pct(holes_df)]

\* Faulty variant: the summary_df.empty branch is missing.
StatisticsPageUnguarded(summary_df, holes_df) == Metrics(summary_df, holes_df)

\* What the page shows for the fetched summary.
StatisticsPage(summary_df, holes_df) ==
    IF summary_df = <<>>
    THEN [op |-> "Statistics", shown |-> "No data available."]
    ELSE Metrics(summary_df, holes_df)

(***************************************************************************)
(* The store as a state machine.                                           *)
(***************************************************************************)
Init ==
    /\ tables = {}
    /\ rounds = {}
    /\ holes = {}
    /\ sqlite_sequence = [t \in Tables |-> 0]
    /\ clock = 0
    /\ result = [op |-> "start"]
    /\ returned = <<>>
    /\ rolled_back = 0

\* init_db(), run at the top of every script run.
InitDb ==
    /\ tables' = CreateTableIfNotExists(CreateTableIfNotExists(tables, "rounds"), "holes")
    /\ rounds' = RowsAfterCreate(tables, "rounds", rounds)
    /\ holes' = RowsAfterCreate(tables, "holes", holes)
    /\ result' = [op |-> "init_db"]
    /\ UNCHANGED <<sqlite_sequence, clock, returned, rolled_back>>

\* save_round(course, hole_data).  Its statements are numbered 1 (INSERT INTO
\* rounds), 2 .. n+1 (one INSERT INTO holes per element) and n+2 (commit);
\* failAt is the statement that raises (a missing key, a value SQLite cannot
\* bind, a locked or full database), 0 when none does.
SaveRound(course, hole_data, failAt) ==
    LET n == Len(hole_data)
        committed == [rounds |-> rounds, holes |-> holes, seq |-> sqlite_sequence]
        executed == IF failAt = 0 THEN n + 2 ELSE failAt - 1
        c1 == InsertRound(committed, course, clock)
        round_id == lastrowid(c1)
        work == IF executed = 0 THEN committed
                ELSE InsertHoles(c1, round_id, hole_data, Min(executed - 1, n))
        after == IF failAt = 0 THEN Commit(committed, work)
                 ELSE CloseWithoutCommit(committed, work)
    IN /\ tables = Tables
       /\ Cardinality(rounds) < MaxRounds
       /\ rounds' = after.rounds
       /\ holes' = after.holes
       /\ sqlite_sequence' = after.seq
       /\ IF failAt = 0
          THEN /\ result' = [op |-> "save_round", status |-> "ok", round_id |-> round_id,
                             course |-> course, hole_data |-> hole_data]
               /\ returned' = Append(returned, round_id)
               /\ UNCHANGED rolled_back
          ELSE /\ result' = [op |-> "save_round", status |-> "error", executed |-> executed]
               /\ rolled_back' = IF executed = 0 THEN rolled_back ELSE round_id
               /\ UNCHANGED returned
       /\ UNCHANGED <<tables, clock>>

\* load_rounds_summary(), as the Past Rounds page calls it.
LoadRoundsSummary ==
    /\ tables = Tables
    /\ \E df \in load_rounds_summary(rounds, holes) :
          result' = [op |-> "load_rounds_summary", df |-> df]
    /\ UNCHANGED <<store, clock, returned, rolled_back>>

\* load_holes().
LoadHoles ==
    /\ tables = Tables
    /\ result' = [op |-> "load_holes", df |-> load_holes(holes)]
    /\ UNCHANGED <<store, clock, returned, rolled_back>>

\* The Statistics page: load_rounds_summary(), then the branch on
\* summary_df.empty.
Statistics ==
    /\ tables = Tables
    /\ \E summary_df \in load_rounds_summary(rounds, holes) :
          result' = StatisticsPage(summary_df, load_holes(holes))
    /\ UNCHANGED <<store, clock, returned, rolled_back>>

\* A second passes: CURRENT_TIMESTAMP has a resolution of one second.  A
\* second in which no round was saved leaves no trace in the store, so the
\* clock is advanced only past a second that holds a round; this caps it at
\* the number of rounds.
Tick ==
    /\ \E r \in rounds : r.played_at = clock
    /\ clock' = clock + 1
    /\ UNCHANGED <<store, result, returned, rolled_back>>

Next ==
    \/ InitDb
    \/ \E course \in Courses, hole_data \in HoleData :
          \E failAt \in 0..(Len(hole_data) + 2) : SaveRound(course, hole_data, failAt)
    \/ LoadRoundsSummary
    \/ LoadHoles
    \/ Statistics
    \/ Tick

Spec == Init /\ [][Next]_vars

(***************************************************************************)
(* The percentages as functions of an arbitrary fetched frame: SpecAgg     *)
(* starts from any frame of at most MaxEntries hole rows with 0/1 flags    *)
(* and applies fir_pct and gir_pct to it.                                  *)
(***************************************************************************)
Flags == {0, 1}

HoleFrames ==
    UNION { { { [id |-> i, round_id |-> 1, hole |-> i, strokes |-> 4, fir |-> f[i][1],
                 gir |-> f[i][2], putts |-> 2, weather |-> "Dry"] : i \in 1..n }
              : f \in [1..n -> Flags \X Flags] }
            : n \in 0..MaxEntries }

InitAgg ==
    /\ tables = Tables
    /\ rounds = {}
    /\ holes = {}
    /\ sqlite_sequence = [t \in Tables |-> 0]
    /\ clock = 0
    /\ result \in {[op |-> "load_holes", df |-> df] : df \in HoleFrames}
    /\ returned = <<>>
    /\ rolled_back = 0

Percentages ==
    /\ result.op = "load_holes"
    /\ result' = [op |-> "percentages", df |-> result.df,
                  fir_pct |-> fir_pct(result.df), gir_pct |-> gir_pct(result.df)]
    /\ UNCHANGED <<store, clock, returned, rolled_back>>

NextAgg == Percentages

SpecAgg == InitAgg /\ [][NextAgg]_vars

(***************************************************************************)
(* Properties.                                                             *)
(***************************************************************************)
IsSave == result.op = "save_round"

SavedOk == IsSave /\ result.status = "ok"

SaveFailed == IsSave /\ result.status = "error"

\* C1: a save_round call that raises, at whichever statement, leaves the
\* rounds, the holes and the AUTOINCREMENT counters as they were before the
\* call, so nothing of the submission shows in load_rounds_summary or
\* load_holes afterwards.
C1_Atomic ==
    [][(result'.op = "save_round" /\ result'.status = "error")
         => /\ rounds' = rounds
            /\ holes' = holes
            /\ sqlite_sequence' = sqlite_sequence
            /\ SummaryRows(rounds', holes') = SummaryRows(rounds, holes)
            /\ load_holes(holes') = load_holes(holes)]_vars

\* A call has raised after the round row and at least one hole row had been
\* inserted, on a store that already held a round.
C1_Witness == SaveFailed /\ result.executed >= 2 /\ rounds # {} /\ holes # {}

\* C2: right after a successful save_round(c, h) with non-empty h, the summary
\* has exactly one row for the returned id, and its strokes, fir, gir and
\* putts are the sums of those fields over h.
C2_RoundTrip ==
    (SavedOk /\ result.hole_data # <<>>)
      => LET mine == {row \in SummaryRows(rounds, holes) : row.id = result.round_id}
         IN /\ Cardinality(mine) = 1
            /\ \A row \in mine :
                  /\ row.course = result.course
                  /\ row.strokes = SumSeq(result.hole_data, "strokes")
                  /\ row.fir = SumSeq(result.hole_data, "fir")
                  /\ row.gir = SumSeq(result.hole_data, "gir")
                  /\ row.putts = SumSeq(result.hole_data, "putts")
            /\ \A df \in load_rounds_summary(rounds, holes) :
                  Cardinality({i \in DOMAIN df : df[i].id = result.round_id}) = 1

\* The scenario of the spec, saved into a store that already holds a round:
\* strokes 12, fir 2, gir 2, putts 5.
C2_Witness ==
    /\ SavedOk
    /\ result.hole_data = Entries(<<Birdie, Bogey, Chip>>)
    /\ Cardinality(rounds) >= 2
    /\ \E row \in SummaryRows(rounds, holes) :
          /\ row.id = result.round_id
          /\ row.strokes = 12 /\ row.fir = 2 /\ row.gir = 2 /\ row.putts = 5

Malformed(course, hole_data) ==
    \/ course = ""
    \/ hole_data = <<>>
    \/ \E i \in DOMAIN hole_data :
          \/ hole_data[i].strokes < 1
          \/ hole_data[i].putts < 0
          \/ hole_data[i].weather \notin WeatherOptions

\* C3: malformed input is rejected before any write, so a call that returned
\* an id (and wrote its rows) had well-formed input.
C3_Rejected == SavedOk => ~Malformed(result.course, result.hole_data)

\* C4: the ids save_round returns are strictly increasing, hence unique, also
\* across calls that raised in between.
C4_Increasing ==
    \A i, j \in DOMAIN returned : i < j => returned[i] < returned[j]

\* A second id has been returned, after a call that raised: the id returned
\* is the one cur.lastrowid had given to the call that raised.
C4_Witness ==
    /\ SavedOk
    /\ Len(returned) >= 2
    /\ result.round_id = rolled_back

\* C5 as stated: of two rounds in the summary, the one saved by the later
\* call (the greater id) comes first.
C5_LaterFirst ==
    result.op = "load_rounds_summary"
      => \A i, j \in DOMAIN result.df : result.df[i].id > result.df[j].id => i < j

\* C5 as amended: of two rounds in the summary with different played_at, the
\* one with the later played_at comes first.
C5_ByPlayedAt ==
    result.op = "load_rounds_summary"
      => \A i, j \in DOMAIN result.df :
            result.df[i].played_at > result.df[j].played_at => i < j

\* A summary of two rounds saved in different seconds.
C5_Witness ==
    /\ result.op = "load_rounds_summary"
    /\ Len(result.df) = 2
    /\ result.df[1].played_at > result.df[2].played_at
    /\ result.df[1].id > result.df[2].id

\* C6: every row of holes refers to exactly one row of rounds.
C6_OneRound ==
    \A h \in holes : Cardinality({r \in rounds : r.id = h.round_id}) = 1

\* Holes of two rounds are stored, and a call has raised in between.
C6_Witness ==
    /\ Cardinality({h.round_id : h \in holes}) >= 2
    /\ rolled_back # 0

ReadOps == {"load_rounds_summary", "load_holes", "Statistics"}

\* C7: no step removes or changes a row of rounds or holes, every row of the
\* summary stays in the summary with the same values, and the read operations
\* leave the store as it is.
C7_Immutable ==
    [][/\ rounds \subseteq rounds'
       /\ holes \subseteq holes'
       /\ SummaryRows(rounds, holes) \subseteq SummaryRows(rounds', holes')
       /\ (result'.op \in ReadOps => store' = store)]_vars

\* A summary of two rounds has been read: the first round is still listed
\* after the second was saved.
C7_Witness ==
    /\ result.op = "load_rounds_summary"
    /\ Len(result.df) = 2
    /\ Cardinality(holes) >= 4

\* C8: a call of init_db leaves both tables existing and every row and
\* counter unchanged; when both tables exist already it changes nothing.
C8_Idempotent ==
    [][result'.op = "init_db"
         => /\ tables' = Tables
            /\ rounds' = rounds
            /\ holes' = holes
            /\ sqlite_sequence' = sqlite_sequence
            /\ (tables = Tables => tables' = tables)]_vars

\* init_db has run again on a store that holds rounds and holes.
C8_Witness == result.op = "init_db" /\ rounds # {} /\ holes # {}

\* C9: when the summary is empty the Statistics page shows "No data
\* available." and nothing else; whenever it shows metrics they are computed
\* over at least one round, and no mean is NaN.
C9_NoData ==
    result.op = "Statistics"
      => /\ SummaryRows(rounds, holes) = {}
              => result = [op |-> "Statistics", shown |-> "No data available."]
         /\ result.shown = "metrics"
              => /\ result.total_rounds >= 1
                 /\ result.avg_score # NaN
                 /\ result.avg_putts # NaN

\* The page was shown for a store whose only round has no holes: the summary
\* is empty although a round exists.
C9_Witness ==
    /\ result.op = "Statistics"
    /\ result.shown = "No data available."
    /\ rounds # {}

\* C10: fir_pct is (number of rows with fir = 1) * 100 / (number of rows), 0
\* for no rows, and lies between 0 and 100.
C10_FairwayPct ==
    result.op = "percentages"
      => LET total == Cardinality(result.df)
             hit == Cardinality({h \in result.df : h.fir = 1})
             pct == result.fir_pct
         IN /\ pct.den > 0
            /\ total = 0 => pct = [num |-> 0, den |-> 1]
            /\ pct.num * total = hit * 100 * pct.den
            /\ 0 <= pct.num /\ pct.num <= 100 * pct.den

\* One row with fir = 1 and one with fir = 0 give 50.
C10_Witness ==
    /\ result.op = "percentages"
    /\ Cardinality(result.df) = 2
    /\ Cardinality({h \in result.df : h.fir = 1}) = 1
    /\ result.fir_pct = [num |-> 50, den |-> 1]

====
